---- MODULE Spec2Model ----
(***************************************************************************)
(* A model of FileManager (src/automation_toolkit.py): the five operations *)
(* that walk a directory tree and move, delete, chmod or list its entries. *)
(*                                                                         *)
(* The file system is a set of directory paths, a function from file paths *)
(* to their attributes, and the permission bits of every entry.  A path is *)
(* a sequence of names below the target directory, which is the empty path *)
(* (Root).  pathlib's behaviour is that of CPython 3.11 on POSIX.          *)
(***************************************************************************)
EXTENDS Integers, Sequences, FiniteSets, TLC

\* ------------------------------------------------------------- bounds
MaxDepth == 2          \* depth of the trees the rglob('*') operations walk
MaxEntries == 3        \* entries below the target in an initial tree
EmptyDirsDepth == 3    \* depth of the trees cleanup_empty_dirs is run on
MaxDays == 1           \* the 'days' argument ranges over 1..MaxDays
MaxSizeMb == 1         \* the 'size_mb' argument ranges over 0..MaxSizeMb
MaxTick == 1           \* seconds the clock may advance between two calls
MaxExternal == 1       \* files another process deletes during one call

\* ------------------------------------------------- program constants
SecondsPerDay == 86400
BytesPerMb == 1048576

\* ------------------------------------------------------------- paths
Root == <<>>

Parent(p) == SubSeq(p, 1, Len(p) - 1)

Name(p) == p[Len(p)]

IsAncestor(a, p) == Len(a) < Len(p) /\ SubSeq(p, 1, Len(a)) = a

Ancestors(p) == {SubSeq(p, 1, n) : n \in 0..(Len(p) - 1)}

\* Every path of 1..depth names.
PathsUpTo(names, depth) == UNION {[1..n -> names] : n \in 1..depth}

\* The names of the trees the recursive operations walk, in str order.
NameSeq == <<"a", "b">>

Names == {NameSeq[i] : i \in 1..Len(NameSeq)}

NameOrd(n) == CHOOSE i \in 1..Len(NameSeq) : NameSeq[i] = n

\* Every enumeration of the set S without repetition.
Perms(S) ==
    {s \in [1..Cardinality(S) -> S] : \A i, j \in 1..Cardinality(S) : s[i] = s[j] => i = j}

\* ---------------------------------------------------------- variables
VARIABLES
    dirs,          \* the directories that exist (Root among them when the target exists)
    files,         \* file path -> [origin, mtime, size]
    perm,          \* path of an entry -> the owner's permission bits, 0..7
    foreign,       \* entries the process does not own
    privileged,    \* the process bypasses permission checks (runs as root)
    order,         \* the order in which scandir returns names
    now,           \* time.time(), in seconds
    op,            \* the operation called
    args,          \* its arguments
    pc,            \* where the call is
    cutoff_time,   \* cleanup_old_files: the cutoff of the current call
    it,            \* the iterator of the call's loop: [pending, stack]
    file_path,     \* the entry the loop body is handling
    results,       \* the results dict of the call
    large_files,   \* find_large_files: the list it returns
    dirs0,         \* the directories at the call
    files0,        \* the files at the call
    visited,       \* the entries the loop has been given, in order
    extDeleted,    \* the files another process deleted during the call
    prev           \* the result and cutoff of the previous call, or NoCall

vars == <<dirs, files, perm, foreign, privileged, order, now, op, args, pc, cutoff_time,
          it, file_path, results, large_files, dirs0, files0, visited, extDeleted, prev>>

fsVars == <<dirs, files, perm>>

envVars == <<foreign, privileged, order>>

\* ------------------------------------------------------- file system
NoFiles == [p \in {} |-> 0]

Entries == dirs \cup DOMAIN files

Exists(p) == p \in Entries

IsDir(p) == p \in dirs

IsFile(p) == p \in DOMAIN files

Children(d) == {p \in Entries : Len(p) = Len(d) + 1 /\ Parent(p) = d}

\* The owner's bits of a mode: r = 4, w = 2, x = 1.
HasR(m) == (m \div 4) % 2 = 1

HasW(m) == (m \div 2) % 2 = 1

HasX(m) == m % 2 = 1

\* Path resolution: search permission on every directory from the target down.
CanReach(p) == privileged \/ \A a \in Ancestors(p) : HasX(perm[a])

\* os.scandir(d)
CanList(d) == privileged \/ (CanReach(d) /\ HasR(perm[d]))

\* Removing or adding an entry of directory d.
CanWriteDir(d) == privileged \/ (CanReach(d) /\ HasW(perm[d]) /\ HasX(perm[d]))

\* os.unlink(p), os.rmdir(p); the target's own parent is writable.
CanRemove(p) == p = Root \/ CanWriteDir(Parent(p))

\* os.chmod(p, mode)
CanChmod(p) == privileged \/ (p \notin foreign /\ CanReach(p))

OrderIdx(n) == CHOOSE i \in DOMAIN order : order[i] = n

RECURSIVE InScanOrder(_)
InScanOrder(S) ==
    IF S = {} THEN <<>>
    ELSE LET m == CHOOSE x \in S : \A y \in S : OrderIdx(Name(x)) <= OrderIdx(Name(y))
         IN <<m>> \o InScanOrder(S \ {m})

\* list(os.scandir(d)): the entries of d, in the order the file system gives them.
ScanDir(d) == InScanOrder(Children(d))

\* Path.__lt__: the parts compared as lists of str.
PathLess(p, q) ==
    \E i \in 1..Len(q) :
        /\ Len(p) >= i - 1
        /\ SubSeq(p, 1, i - 1) = SubSeq(q, 1, i - 1)
        /\ (Len(p) = i - 1 \/ NameOrd(p[i]) < NameOrd(q[i]))

RECURSIVE SortedReverse(_)
SortedReverse(S) ==
    IF S = {} THEN <<>>
    ELSE LET m == CHOOSE x \in S : \A y \in S \ {x} : PathLess(y, x)
         IN <<m>> \o SortedReverse(S \ {m})

\* target_path.rglob('.'): the target and every directory below it that the walk
\* can reach (_RecursiveWildcardSelector gives up on a directory it cannot list).
RGlobDot == {d \in dirs : \A a \in Ancestors(d) : CanList(a)}

\* ---------------------------------------------------- initial trees
\* The sets of at most k paths of U that hold the parent of each of their paths.
RECURSIVE Shapes(_, _)
Shapes(U, k) ==
    IF k = 0 THEN {{}}
    ELSE LET S == Shapes(U, k - 1)
         IN S \cup UNION {{s \cup {p} : p \in {q \in U \ s : Len(q) = 1 \/ Parent(q) \in s}} :
                          s \in S}

Leaves(s) == {p \in s : \A q \in s : Parent(q) # p}

NoCall == [op |-> "none"]

\* A tree with directories D (Root among them) and files f, no call made yet.
InitCommon ==
    /\ now = (MaxDays + 1) * SecondsPerDay
    /\ op = "none"
    /\ args = NoCall
    /\ pc = "idle"
    /\ cutoff_time = 0
    /\ it = [pending |-> <<>>, stack |-> <<>>]
    /\ file_path = Root
    /\ results = [errors |-> 0]
    /\ large_files = <<>>
    /\ dirs0 = dirs
    /\ files0 = files
    /\ visited = <<>>
    /\ extDeleted = {}
    /\ prev = NoCall

\* What every call does first: it notes the tree it starts on.
Enter(name, a) ==
    /\ op' = name
    /\ args' = a
    /\ dirs0' = dirs
    /\ files0' = files
    /\ visited' = <<>>
    /\ extDeleted' = {}

\* ------------------------------------------------ cleanup_empty_dirs
EmptyDirsCall ==
    \E recursive \in BOOLEAN :
        /\ pc = "idle"
        /\ Enter("cleanup_empty_dirs", [recursive |-> recursive])
        /\ results' = [removed |-> 0, errors |-> 0]
        /\ IF Exists(Root) /\ recursive
           THEN /\ it' = [pending |-> SortedReverse(RGlobDot), stack |-> <<>>]
                /\ pc' = "loop"
           ELSE /\ it' = it
                /\ pc' = "done"
        /\ UNCHANGED <<fsVars, envVars, now, cutoff_time, file_path, large_files, prev>>

\* dir_path.is_dir() and not list(dir_path.iterdir()), then dir_path.rmdir()
EmptyDirsRemove ==
    /\ op = "cleanup_empty_dirs" /\ pc = "loop" /\ it.pending # <<>>
    /\ LET dir_path == Head(it.pending) IN
        /\ IsDir(dir_path) /\ CanList(dir_path) /\ Children(dir_path) = {}
        /\ CanRemove(dir_path)
        /\ dirs' = dirs \ {dir_path}
        /\ perm' = [p \in DOMAIN perm \ {dir_path} |-> perm[p]]
        /\ results' = [results EXCEPT !.removed = @ + 1]
        /\ file_path' = dir_path
    /\ it' = [it EXCEPT !.pending = Tail(@)]
    /\ visited' = Append(visited, Head(it.pending))
    /\ UNCHANGED <<files, envVars, now, op, args, pc, cutoff_time, large_files, dirs0,
                   files0, extDeleted, prev>>

\* rmdir raises: counted, and the loop goes on
EmptyDirsRemoveFails ==
    /\ op = "cleanup_empty_dirs" /\ pc = "loop" /\ it.pending # <<>>
    /\ LET dir_path == Head(it.pending) IN
        /\ IsDir(dir_path) /\ CanList(dir_path) /\ Children(dir_path) = {}
        /\ ~CanRemove(dir_path)
        /\ results' = [results EXCEPT !.errors = @ + 1]
        /\ file_path' = dir_path
    /\ it' = [it EXCEPT !.pending = Tail(@)]
    /\ visited' = Append(visited, Head(it.pending))
    /\ UNCHANGED <<fsVars, envVars, now, op, args, pc, cutoff_time, large_files, dirs0,
                   files0, extDeleted, prev>>

\* a directory that holds something is passed over
EmptyDirsSkip ==
    /\ op = "cleanup_empty_dirs" /\ pc = "loop" /\ it.pending # <<>>
    /\ LET dir_path == Head(it.pending) IN
        /\ ~IsDir(dir_path) \/ (CanList(dir_path) /\ Children(dir_path) # {})
        /\ file_path' = dir_path
    /\ it' = [it EXCEPT !.pending = Tail(@)]
    /\ visited' = Append(visited, Head(it.pending))
    /\ UNCHANGED <<fsVars, envVars, now, op, args, pc, cutoff_time, results, large_files,
                   dirs0, files0, extDeleted, prev>>

\* iterdir raises on a directory the process cannot list: the outer handler counts
\* one error and the loop is over
EmptyDirsAbort ==
    /\ op = "cleanup_empty_dirs" /\ pc = "loop" /\ it.pending # <<>>
    /\ LET dir_path == Head(it.pending) IN
        /\ IsDir(dir_path) /\ ~CanList(dir_path)
        /\ file_path' = dir_path
    /\ it' = [it EXCEPT !.pending = Tail(@)]
    /\ visited' = Append(visited, Head(it.pending))
    /\ results' = [results EXCEPT !.errors = @ + 1]
    /\ pc' = "done"
    /\ UNCHANGED <<fsVars, envVars, now, op, args, cutoff_time, large_files, dirs0,
                   files0, extDeleted, prev>>

EmptyDirsReturn ==
    /\ op = "cleanup_empty_dirs" /\ pc = "loop" /\ it.pending = <<>>
    /\ pc' = "done"
    /\ UNCHANGED <<fsVars, envVars, now, op, args, cutoff_time, it, file_path, results,
                   large_files, dirs0, files0, visited, extDeleted, prev>>

\* The target may be missing; below it, files and directories to EmptyDirsDepth,
\* and at most one directory that is read-only (5) or unreadable (3) to the process.
InitEmptyDirs ==
    /\ \E s \in Shapes(PathsUpTo(Names, EmptyDirsDepth), MaxEntries + 1) :
       \E F \in SUBSET Leaves(s) :
       \E missing \in BOOLEAN :
       \E ro \in {{}} \cup {{d} : d \in {Root} \cup (s \ F)} :
       \E m \in {5, 3} :
        /\ missing => s = {} /\ ro = {}
        /\ ro = {} => m = 5
        /\ dirs = IF missing THEN {} ELSE {Root} \cup (s \ F)
        /\ files = [p \in F |-> [origin |-> p, mtime |-> 0, size |-> 0]]
        /\ perm = [p \in dirs \cup F |-> IF p \in ro THEN m ELSE 7]
    /\ foreign = {}
    /\ privileged = FALSE
    /\ order = NameSeq
    /\ InitCommon

NextEmptyDirs ==
    \/ EmptyDirsCall
    \/ EmptyDirsRemove
    \/ EmptyDirsRemoveFails
    \/ EmptyDirsSkip
    \/ EmptyDirsAbort
    \/ EmptyDirsReturn

SpecEmptyDirs == InitEmptyDirs /\ [][NextEmptyDirs]_vars

\* ------------------------------------------------- target.rglob('*')
\* The generator behind `for ... in target_path.rglob('*')`: the directories still
\* to be listed (stack, the next one first) and what is left of the listing of the
\* current one (pending).  A directory is listed when the walk gets to it, not
\* when the walk starts, and one it cannot list gives nothing.  pathlib lists a
\* directory twice, once for its entries and once more, after the loop has been
\* given them, for the directories to go down into; no operation here changes
\* which directories there are, or the mode of a directory between the two, so
\* the model lists it once.
RGlobOps == {"cleanup_old_files", "change_permissions", "find_large_files"}

RGlobStart == [pending |-> <<>>, stack |-> IF IsDir(Root) THEN <<Root>> ELSE <<>>]

BodyStart(o) == IF o = "change_permissions" THEN "chmod" ELSE "is_file"

IterScan ==
    /\ op \in RGlobOps /\ pc = "iter"
    /\ it.pending = <<>> /\ it.stack # <<>>
    /\ LET d == Head(it.stack)
           listing == IF CanList(d) THEN ScanDir(d) ELSE <<>>
       IN it' = [pending |-> listing, stack |-> SelectSeq(listing, IsDir) \o Tail(it.stack)]
    /\ UNCHANGED <<fsVars, envVars, now, op, args, pc, cutoff_time, file_path, results,
                   large_files, dirs0, files0, visited, extDeleted, prev>>

IterYield ==
    /\ op \in RGlobOps /\ pc = "iter"
    /\ it.pending # <<>>
    /\ file_path' = Head(it.pending)
    /\ it' = [it EXCEPT !.pending = Tail(@)]
    /\ visited' = Append(visited, Head(it.pending))
    /\ pc' = BodyStart(op)
    /\ UNCHANGED <<fsVars, envVars, now, op, args, cutoff_time, results, large_files,
                   dirs0, files0, extDeleted, prev>>

IterEnd ==
    /\ op \in RGlobOps /\ pc = "iter"
    /\ it.pending = <<>> /\ it.stack = <<>>
    /\ pc' = "done"
    /\ UNCHANGED <<fsVars, envVars, now, op, args, cutoff_time, it, file_path, results,
                   large_files, dirs0, files0, visited, extDeleted, prev>>

\* Another process deletes a file while a call is running.
ExternalDelete ==
    /\ pc \notin {"idle", "done"}
    /\ Cardinality(extDeleted) < MaxExternal
    /\ \E f \in DOMAIN files :
        /\ files' = [p \in DOMAIN files \ {f} |-> files[p]]
        /\ perm' = [p \in DOMAIN perm \ {f} |-> perm[p]]
        /\ extDeleted' = extDeleted \cup {f}
    /\ UNCHANGED <<dirs, envVars, now, op, args, pc, cutoff_time, it, file_path, results,
                   large_files, dirs0, files0, visited, prev>>

\* ------------------------------------------------- cleanup_old_files
Cutoff(t, days) == t - days * SecondsPerDay

\* A mutant of IsOld: a file exactly at the cutoff counts as old.
IsOldOrAtCutoff(file_time, cutoff) == file_time <= cutoff

IsOld(file_time, cutoff) == file_time < cutoff

\* A mutant of Unlink: the call returns and the file is still there.
UnlinkNothing(p) == files

\* file_path.unlink(): the files without p
Unlink(p) == [q \in DOMAIN files \ {p} |-> files[q]]

OldFilesResults == [deleted |-> 0, errors |-> 0, details |-> <<>>]

OldFilesCall ==
    \E days \in 1..MaxDays :
        /\ pc = "idle"
        /\ Enter("cleanup_old_files", [days |-> days])
        /\ results' = OldFilesResults
        /\ cutoff_time' = Cutoff(now, days)
        /\ IF Exists(Root)
           THEN it' = RGlobStart /\ pc' = "iter"
           ELSE it' = it /\ pc' = "done"
        /\ UNCHANGED <<fsVars, envVars, now, file_path, large_files, prev>>

\* if file_path.is_file(): False for a directory and for a path that is gone
OldFilesIsFile ==
    /\ op = "cleanup_old_files" /\ pc = "is_file"
    /\ pc' = IF IsFile(file_path) THEN "stat" ELSE "iter"
    /\ UNCHANGED <<fsVars, envVars, now, op, args, cutoff_time, it, file_path, results,
                   large_files, dirs0, files0, visited, extDeleted, prev>>

\* file_time = file_path.stat().st_mtime; if file_time < cutoff_time.  stat raises
\* when the file is gone: that is outside the inner try, the outer handler counts
\* one error and the loop is over.
OldFilesStat ==
    /\ op = "cleanup_old_files" /\ pc = "stat"
    /\ IF IsFile(file_path)
       THEN /\ pc' = IF IsOld(files[file_path].mtime, cutoff_time) THEN "unlink" ELSE "iter"
            /\ results' = results
       ELSE /\ pc' = "done"
            /\ results' = [results EXCEPT !.errors = @ + 1]
    /\ UNCHANGED <<fsVars, envVars, now, op, args, cutoff_time, it, file_path,
                   large_files, dirs0, files0, visited, extDeleted, prev>>

\* file_path.unlink() in the inner try: a failure is counted and the loop goes on
OldFilesUnlink ==
    /\ op = "cleanup_old_files" /\ pc = "unlink"
    /\ IF IsFile(file_path) /\ CanRemove(file_path)
       THEN /\ files' = Unlink(file_path)
            /\ perm' = [p \in DOMAIN perm \ {file_path} |-> perm[p]]
            /\ results' = [results EXCEPT !.deleted = @ + 1,
                                          !.details = Append(@, Name(file_path))]
       ELSE /\ files' = files
            /\ perm' = perm
            /\ results' = [results EXCEPT !.errors = @ + 1]
    /\ pc' = "iter"
    /\ UNCHANGED <<dirs, envVars, now, op, args, cutoff_time, it, file_path,
                   large_files, dirs0, files0, visited, extDeleted, prev>>

\* The clock moves on between two calls.
Tick ==
    /\ pc = "done" /\ prev = NoCall
    /\ now < (MaxDays + 1) * SecondsPerDay + MaxTick
    /\ now' = now + 1
    /\ UNCHANGED <<fsVars, envVars, op, args, pc, cutoff_time, it, file_path, results,
                   large_files, dirs0, files0, visited, extDeleted, prev>>

\* The caller runs cleanup_old_files again, with the same days.
OldFilesCallAgain ==
    /\ op = "cleanup_old_files" /\ pc = "done" /\ prev = NoCall
    /\ prev' = [op |-> op, results |-> results, cutoff_time |-> cutoff_time]
    /\ Enter("cleanup_old_files", args)
    /\ results' = OldFilesResults
    /\ cutoff_time' = Cutoff(now, args.days)
    /\ IF Exists(Root)
       THEN it' = RGlobStart /\ pc' = "iter"
       ELSE it' = it /\ pc' = "done"
    /\ UNCHANGED <<fsVars, envVars, now, file_path, large_files>>

\* The last-modified times of the initial files: one second before each cutoff a
\* first call can have, exactly at it, and one second after it.
MTimes == {Cutoff((MaxDays + 1) * SecondsPerDay, d) + e : d \in 1..MaxDays, e \in {-1, 0, 1}}

\* The target may be missing; below it a tree of at most MaxEntries entries, and at
\* most one directory that is read-only to the process.
InitOldFiles ==
    /\ \E s \in Shapes(PathsUpTo(Names, MaxDepth), MaxEntries) :
       \E F \in SUBSET Leaves(s) :
       \E missing \in BOOLEAN :
       \E ro \in {{}} \cup {{d} : d \in {Root} \cup (s \ F)} :
       \E mt \in [F -> MTimes] :
        /\ missing => s = {} /\ ro = {}
        /\ dirs = IF missing THEN {} ELSE {Root} \cup (s \ F)
        /\ files = [p \in F |-> [origin |-> p, mtime |-> mt[p], size |-> 0]]
        /\ perm = [p \in dirs \cup F |-> IF p \in ro THEN 5 ELSE 7]
    /\ foreign = {}
    /\ privileged = FALSE
    /\ order \in Perms(Names)
    /\ InitCommon

NextOldFiles ==
    \/ OldFilesCall
    \/ IterScan
    \/ IterYield
    \/ IterEnd
    \/ OldFilesIsFile
    \/ OldFilesStat
    \/ OldFilesUnlink
    \/ ExternalDelete

SpecOldFiles == InitOldFiles /\ [][NextOldFiles]_vars

NextOldFilesTwice ==
    \/ OldFilesCall
    \/ IterScan
    \/ IterYield
    \/ IterEnd
    \/ OldFilesIsFile
    \/ OldFilesStat
    \/ OldFilesUnlink
    \/ Tick
    \/ OldFilesCallAgain

SpecOldFilesTwice == InitOldFiles /\ [][NextOldFilesTwice]_vars

\* -------------------------------------------------- find_large_files
\* A mutant of IsLarge: a file of exactly the threshold size counts as large.
IsLargeOrAtThreshold(file_size, size_bytes) == file_size >= size_bytes

IsLarge(file_size, size_bytes) == file_size > size_bytes

SizeBytes(size_mb) == size_mb * 1024 * 1024

\* round(file_size / (1024 * 1024), 2), in hundredths of a MB: to the nearest
\* hundredth, a tie to the even one.
RoundedSizeMb(file_size) ==
    LET q == (file_size * 100) \div BytesPerMb
        r == (file_size * 100) % BytesPerMb
    IN IF 2 * r > BytesPerMb \/ (2 * r = BytesPerMb /\ q % 2 = 1) THEN q + 1 ELSE q

\* There is no check that the target exists: rglob on a missing target gives nothing.
LargeFilesCall ==
    \E size_mb \in 0..MaxSizeMb :
        /\ pc = "idle"
        /\ Enter("find_large_files", [size_mb |-> size_mb])
        /\ large_files' = <<>>
        /\ it' = RGlobStart
        /\ pc' = "iter"
        /\ UNCHANGED <<fsVars, envVars, now, cutoff_time, file_path, results, prev>>

LargeFilesIsFile ==
    /\ op = "find_large_files" /\ pc = "is_file"
    /\ pc' = IF IsFile(file_path) THEN "stat" ELSE "iter"
    /\ UNCHANGED <<fsVars, envVars, now, op, args, cutoff_time, it, file_path, results,
                   large_files, dirs0, files0, visited, extDeleted, prev>>

\* file_size = file_path.stat().st_size; if file_size > size_bytes: append.  stat
\* raises when the file is gone: the handler logs it and the list so far is returned.
LargeFilesStat ==
    /\ op = "find_large_files" /\ pc = "stat"
    /\ IF IsFile(file_path)
       THEN /\ pc' = "iter"
            /\ large_files' =
                IF IsLarge(files[file_path].size, SizeBytes(args.size_mb))
                THEN Append(large_files, [path |-> file_path,
                                          size_mb |-> RoundedSizeMb(files[file_path].size)])
                ELSE large_files
       ELSE /\ pc' = "done"
            /\ large_files' = large_files
    /\ UNCHANGED <<fsVars, envVars, now, op, args, cutoff_time, it, file_path, results,
                   dirs0, files0, visited, extDeleted, prev>>

\* The sizes of the initial files: each threshold a call can have, and one byte more.
Sizes == {SizeBytes(m) + e : m \in 0..MaxSizeMb, e \in {0, 1}}

InitLargeFiles ==
    /\ \E s \in Shapes(PathsUpTo(Names, MaxDepth), MaxEntries) :
       \E F \in SUBSET Leaves(s) :
       \E missing \in BOOLEAN :
       \E sz \in [F -> Sizes] :
        /\ missing => s = {}
        /\ dirs = IF missing THEN {} ELSE {Root} \cup (s \ F)
        /\ files = [p \in F |-> [origin |-> p, mtime |-> 0, size |-> sz[p]]]
        /\ perm = [p \in dirs \cup F |-> 7]
    /\ foreign = {}
    /\ privileged = FALSE
    /\ order \in Perms(Names)
    /\ InitCommon

NextLargeFiles ==
    \/ LargeFilesCall
    \/ IterScan
    \/ IterYield
    \/ IterEnd
    \/ LargeFilesIsFile
    \/ LargeFilesStat
    \/ ExternalDelete

SpecLargeFiles == InitLargeFiles /\ [][NextLargeFiles]_vars

\* ------------------------------------------------ change_permissions
\* The mode argument, as the owner's bits.
Modes == 0..7

ChmodCall ==
    \E mode \in Modes, recursive \in BOOLEAN :
        /\ pc = "idle"
        /\ Enter("change_permissions", [mode |-> mode, recursive |-> recursive])
        /\ results' = [changed |-> 0, errors |-> 0]
        /\ IF ~Exists(Root)
           THEN it' = it /\ pc' = "done"
           ELSE IF recursive /\ IsDir(Root)
                THEN it' = RGlobStart /\ pc' = "iter"
                ELSE it' = it /\ pc' = "chmod_target"
        /\ UNCHANGED <<fsVars, envVars, now, cutoff_time, file_path, large_files, prev>>

\* item.chmod(mode) in the inner try: a failure is counted and the loop goes on
ChmodItem ==
    /\ op = "change_permissions" /\ pc = "chmod"
    /\ IF CanChmod(file_path)
       THEN /\ perm' = [perm EXCEPT ![file_path] = args.mode]
            /\ results' = [results EXCEPT !.changed = @ + 1]
       ELSE /\ perm' = perm
            /\ results' = [results EXCEPT !.errors = @ + 1]
    /\ pc' = "iter"
    /\ UNCHANGED <<dirs, files, envVars, now, op, args, cutoff_time, it, file_path,
                   large_files, dirs0, files0, visited, extDeleted, prev>>

\* target.chmod(mode), not recursive: a failure goes to the outer handler
ChmodTarget ==
    /\ op = "change_permissions" /\ pc = "chmod_target"
    /\ IF CanChmod(Root)
       THEN /\ perm' = [perm EXCEPT ![Root] = args.mode]
            /\ results' = [results EXCEPT !.changed = @ + 1]
       ELSE /\ perm' = perm
            /\ results' = [results EXCEPT !.errors = @ + 1]
    /\ pc' = "done"
    /\ UNCHANGED <<dirs, files, envVars, now, op, args, cutoff_time, it, file_path,
                   large_files, dirs0, files0, visited, extDeleted, prev>>

\* The target may be missing; below it a tree the process can read and search, at
\* most one entry of which it does not own; the process may be privileged.
InitChmod ==
    /\ \E s \in Shapes(PathsUpTo(Names, MaxDepth), MaxEntries) :
       \E F \in SUBSET Leaves(s) :
       \E missing \in BOOLEAN :
        /\ missing => s = {}
        /\ dirs = IF missing THEN {} ELSE {Root} \cup (s \ F)
        /\ files = [p \in F |-> [origin |-> p, mtime |-> 0, size |-> 0]]
        /\ perm = [p \in dirs \cup F |-> 7]
    /\ foreign \in {{}} \cup {{p} : p \in DOMAIN perm}
    /\ privileged \in BOOLEAN
    /\ order \in Perms(Names)
    /\ InitCommon

NextChmod ==
    \/ ChmodCall
    \/ IterScan
    \/ IterYield
    \/ IterEnd
    \/ ChmodItem
    \/ ChmodTarget

SpecChmod == InitChmod /\ [][NextChmod]_vars

\* --------------------------------------------- organize_by_extension
\* A file name is the sequence of its characters.
NoExtension == <<"n", "o", "_", "e", "x", "t", "e", "n", "s", "i", "o", "n">>

\* str.rfind('.'), counting from 1: 0 when there is no dot
RFindDot(name) ==
    LET at == {i \in 1..Len(name) : name[i] = "."}
    IN IF at = {} THEN 0 ELSE CHOOSE i \in at : \A j \in at : j <= i

\* PurePath.suffix: from the last dot on, unless that dot is the first or the
\* last character of the name.
Suffix(name) ==
    LET i == RFindDot(name)
    IN IF 1 < i /\ i < Len(name) THEN SubSeq(name, i, Len(name)) ELSE <<>>

\* str.lstrip('.')
RECURSIVE LStripDots(_)
LStripDots(str) ==
    IF str # <<>> /\ Head(str) = "." THEN LStripDots(Tail(str)) ELSE str

\* ext = file_path.suffix or 'no_extension'
Ext(name) == IF Suffix(name) = <<>> THEN NoExtension ELSE Suffix(name)

\* ext_dir = source_path / ext.lstrip('.')
ExtDir(name) == <<LStripDots(Ext(name))>>

\* The names of the entries of the directory that is organized: "t", "a.t", ".t"
\* and "no_extension".
OrganizeNames == {<<"t">>, <<"a", ".", "t">>, <<".", "t">>, NoExtension}

\* The paths of an initial tree: the entries of the directory, an entry of the
\* same name in the bucket of each, and one of the same name below that.
OrganizePaths ==
    {<<n>> : n \in OrganizeNames}
        \cup {ExtDir(n) \o <<n>> : n \in OrganizeNames}
        \cup {ExtDir(n) \o <<n, n>> : n \in OrganizeNames}

\* os.rename(src, dst): dst, a file or nothing, becomes the file src was
Rename(src, dst) ==
    [q \in (DOMAIN files \ {src}) \cup {dst} |-> IF q = dst THEN files[src] ELSE files[q]]

\* The loop is over the entries source_path.glob('*') finds when it starts.
OrganizeCall ==
    /\ pc = "idle"
    /\ Enter("organize_by_extension", [source_dir |-> Root])
    /\ results' = [organized |-> 0, errors |-> 0, details |-> <<>>]
    /\ IF Exists(Root)
       THEN /\ it' = [pending |-> IF IsDir(Root) /\ CanList(Root) THEN ScanDir(Root) ELSE <<>>,
                      stack |-> <<>>]
            /\ pc' = "loop"
       ELSE /\ it' = it
            /\ pc' = "done"
    /\ UNCHANGED <<fsVars, envVars, now, cutoff_time, file_path, large_files, prev>>

OrganizeTakes ==
    /\ op = "organize_by_extension" /\ pc = "loop" /\ it.pending # <<>>
    /\ file_path' = Head(it.pending)
    /\ it' = [it EXCEPT !.pending = Tail(@)]
    /\ visited' = Append(visited, Head(it.pending))

\* if file_path.is_file(): a directory is passed over
OrganizeSkip ==
    /\ OrganizeTakes
    /\ ~IsFile(Head(it.pending))
    /\ UNCHANGED <<fsVars, envVars, now, op, args, pc, cutoff_time, results, large_files,
                   dirs0, files0, extDeleted, prev>>

\* ext_dir.mkdir(exist_ok=True) raises FileExistsError when ext_dir is a regular
\* file: that is outside the inner try, the outer handler counts one error and
\* the loop is over.
OrganizeMkdirFails ==
    /\ OrganizeTakes
    /\ IsFile(Head(it.pending))
    /\ IsFile(ExtDir(Name(Head(it.pending))))
    /\ results' = [results EXCEPT !.errors = @ + 1]
    /\ pc' = "done"
    /\ UNCHANGED <<fsVars, envVars, now, op, args, cutoff_time, large_files, dirs0,
                   files0, extDeleted, prev>>

\* shutil.move(src, dst): into dst when dst is a directory, else os.rename
RealDst(src) ==
    LET dst == ExtDir(Name(src)) \o <<Name(src)>>
    IN IF IsDir(dst) THEN dst \o <<Name(src)>> ELSE dst

\* shutil.move raises 'Destination path already exists' when dst is a directory
\* that holds an entry of the name: counted, and the loop goes on.
MoveRaises(src) ==
    IsDir(ExtDir(Name(src)) \o <<Name(src)>>) /\ Exists(RealDst(src))

OrganizeMove ==
    /\ OrganizeTakes
    /\ LET src == Head(it.pending)
           ext_dir == ExtDir(Name(src))
       IN /\ IsFile(src)
          /\ ~IsFile(ext_dir)
          /\ ~MoveRaises(src)
          /\ dirs' = dirs \cup {ext_dir}
          /\ files' = Rename(src, RealDst(src))
          /\ perm' = [q \in dirs' \cup DOMAIN files' |-> 7]
          /\ results' = [results EXCEPT
                            !.organized = @ + 1,
                            !.details = Append(@, [name |-> Name(src), ext |-> Ext(Name(src))])]
    /\ UNCHANGED <<envVars, now, op, args, pc, cutoff_time, large_files, dirs0, files0,
                   extDeleted, prev>>

OrganizeMoveFails ==
    /\ OrganizeTakes
    /\ LET src == Head(it.pending)
       IN /\ IsFile(src)
          /\ ~IsFile(ExtDir(Name(src)))
          /\ MoveRaises(src)
          /\ results' = [results EXCEPT !.errors = @ + 1]
    /\ UNCHANGED <<fsVars, envVars, now, op, args, pc, cutoff_time, large_files, dirs0,
                   files0, extDeleted, prev>>

OrganizeReturn ==
    /\ op = "organize_by_extension" /\ pc = "loop" /\ it.pending = <<>>
    /\ pc' = "done"
    /\ UNCHANGED <<fsVars, envVars, now, op, args, cutoff_time, it, file_path, results,
                   large_files, dirs0, files0, visited, extDeleted, prev>>

\* The directory may be missing; in it at most MaxEntries + 1 entries, those in its
\* buckets included, listed by scandir in any order.
InitOrganize ==
    /\ \E s \in Shapes(OrganizePaths, MaxEntries + 1) :
       \E F \in SUBSET Leaves(s) :
       \E missing \in BOOLEAN :
        /\ missing => s = {}
        /\ dirs = IF missing THEN {} ELSE {Root} \cup (s \ F)
        /\ files = [p \in F |-> [origin |-> p, mtime |-> 0, size |-> 0]]
        /\ perm = [p \in dirs \cup F |-> 7]
    /\ foreign = {}
    /\ privileged = FALSE
    /\ order \in Perms(OrganizeNames)
    /\ InitCommon

NextOrganize ==
    \/ OrganizeCall
    \/ OrganizeSkip
    \/ OrganizeMkdirFails
    \/ OrganizeMove
    \/ OrganizeMoveFails
    \/ OrganizeReturn

SpecOrganize == InitOrganize /\ [][NextOrganize]_vars

\* ------------------------------------- the operations on a bare target
\* What the caller gets back.
ReturnValue == IF op = "find_large_files" THEN large_files ELSE results

\* What each operation returns when it has handled nothing: the results it starts
\* with.
QuietReturn(o) ==
    CASE o = "organize_by_extension" -> [organized |-> 0, errors |-> 0, details |-> <<>>]
      [] o = "cleanup_empty_dirs" -> [removed |-> 0, errors |-> 0]
      [] o = "cleanup_old_files" -> OldFilesResults
      [] o = "change_permissions" -> [changed |-> 0, errors |-> 0]
      [] o = "find_large_files" -> <<>>

\* A target that is missing, or a directory with nothing in it.
InitBareTarget ==
    /\ dirs \in {{}, {Root}}
    /\ files = NoFiles
    /\ perm = [p \in dirs |-> 7]
    /\ foreign \in SUBSET dirs
    /\ privileged \in BOOLEAN
    /\ order \in Perms(Names)
    /\ InitCommon

NextBareTarget ==
    \/ OrganizeCall
    \/ OrganizeReturn
    \/ EmptyDirsCall
    \/ EmptyDirsRemove
    \/ EmptyDirsReturn
    \/ OldFilesCall
    \/ ChmodCall
    \/ ChmodTarget
    \/ LargeFilesCall
    \/ IterScan
    \/ IterEnd

SpecBareTarget == InitBareTarget /\ [][NextBareTarget]_vars

\* ============================================================ claims
Children0(d) == {p \in dirs0 \cup DOMAIN files0 : Len(p) = Len(d) + 1 /\ Parent(p) = d}

Returned(name) == op = name /\ pc = "done"

\* The files the running call has removed itself.
RemovedByCall == (DOMAIN files0 \ DOMAIN files) \ extDeleted

\* ------------------------------------------------ cleanup_empty_dirs
\* C1 (as claimed): cleanup_empty_dirs(target_dir, recursive=True) never removes
\* target_dir itself: called on an existing target, the target still exists when
\* the call returns.
C1_TargetSurvives ==
    (Returned("cleanup_empty_dirs") /\ Root \in dirs0) => Root \in dirs

\* a/b/c below the target, b the only entry of a, c the only entry of b, and c the
\* only directory that is empty at the call
IsChain(a, b, c) ==
    /\ {a, b, c} \subseteq dirs0
    /\ Len(a) = 1 /\ Children0(a) = {b} /\ Children0(b) = {c}
    /\ \A d \in dirs0 : Children0(d) = {} <=> d = c

Position(p) == CHOOSE i \in 1..Len(visited) : visited[i] = p

\* C7 (as claimed): a recursive cleanup_empty_dirs considers every directory after
\* all its descendants, so that when a call without failures returns no directory
\* strictly below the target is empty, and a chain a/b/c where only c is empty at
\* the call has c, then b, then a removed by the one call, with removed = 3.
C7_OnePassRemovesChain ==
    (Returned("cleanup_empty_dirs") /\ args.recursive /\ Root \in dirs0
        /\ results.errors = 0) =>
        /\ \A i, j \in 1..Len(visited) : IsAncestor(visited[i], visited[j]) => j < i
        /\ \A d \in dirs \ {Root} : Children(d) # {}
        /\ \A a, b, c \in dirs0 :
            IsChain(a, b, c) =>
                /\ {a, b, c} \cap dirs = {}
                /\ Position(c) < Position(b) /\ Position(b) < Position(a)
                /\ results.removed = 3

\* What does hold of a recursive call that returns without an error: each directory
\* was considered after all its descendants, none strictly below the target is
\* left empty, and a chain a/b/c is removed c first, then b, then a; 'removed' is
\* 3, or 4 when the target goes as well.
DeepestFirstHolds ==
    (Returned("cleanup_empty_dirs") /\ args.recursive /\ Root \in dirs0
        /\ results.errors = 0) =>
        /\ \A i, j \in 1..Len(visited) : IsAncestor(visited[i], visited[j]) => j < i
        /\ \A d \in dirs \ {Root} : Children(d) # {}
        /\ \A a, b, c \in dirs0 :
            IsChain(a, b, c) =>
                /\ {a, b, c} \cap dirs = {}
                /\ Position(c) < Position(b) /\ Position(b) < Position(a)
                /\ results.removed = IF Root \in dirs THEN 3 ELSE 4

\* ------------------------------------------------- cleanup_old_files
\* C4 (as claimed): when another process deletes a file during cleanup_old_files,
\* that is a failure of that one entry: every other file older than the cutoff
\* that is there throughout the call (and that the process may delete) has been
\* deleted when the call returns.
C4_RaceIsPerEntry ==
    Returned("cleanup_old_files") =>
        \A f \in DOMAIN files0 :
            (files0[f].mtime < cutoff_time /\ f \notin extDeleted /\ CanRemove(f))
                => f \notin DOMAIN files

\* C8: cleanup_old_files deletes only regular files whose last-modified time is
\* strictly earlier than the cutoff: every directory that was there at the call is
\* still there, no file with mtime >= cutoff (the cutoff itself included) has been
\* removed by the call, the files that remain are as they were, and 'deleted' is
\* the number of files the call removed and the length of 'details'.
C8_DeletesOnlyOldFiles ==
    op = "cleanup_old_files" =>
        /\ dirs = dirs0
        /\ \A f \in RemovedByCall : files0[f].mtime < cutoff_time
        /\ \A f \in DOMAIN files : f \in DOMAIN files0 /\ files[f] = files0[f]
        /\ results.deleted = Cardinality(RemovedByCall)
        /\ results.deleted = Len(results.details)

\* C8's case: a call has returned having deleted a file, with a file exactly at
\* the cutoff and a directory below the target in the tree.
C8_Witness ==
    /\ Returned("cleanup_old_files")
    /\ results.deleted >= 1
    /\ \E f \in DOMAIN files0 : files0[f].mtime = cutoff_time
    /\ dirs0 # {Root}

SecondCallReturned == Returned("cleanup_old_files") /\ prev # NoCall

SecondCallIdle ==
    /\ results.deleted = 0
    /\ results.errors = 0
    /\ files = files0
    /\ dirs = dirs0

LargeAtCall(p) ==
    p \in DOMAIN files0 /\ files0[p].size > args.size_mb * BytesPerMb

\* C10: find_large_files returns exactly the regular files below the target, at
\* any depth, whose size in bytes is strictly greater than size_mb*1024*1024, one
\* record for each in the order the walk gave them (the tree left alone by others
\* during the call), and the call changes nothing in the tree.
C10_ExactlyTheLargeFiles ==
    op = "find_large_files" =>
        /\ dirs = dirs0
        /\ DOMAIN files = DOMAIN files0 \ extDeleted
        /\ \A f \in DOMAIN files : files[f] = files0[f] /\ perm[f] = 7
        /\ (pc = "done" /\ extDeleted = {}) =>
            LET expected == SelectSeq(visited, LargeAtCall) IN
            /\ Len(large_files) = Len(expected)
            /\ \A i \in 1..Len(expected) : large_files[i].path = expected[i]
            /\ {large_files[i].path : i \in 1..Len(large_files)}
                    = {f \in DOMAIN files0 : LargeAtCall(f)}
            /\ Len(large_files) = Cardinality({f \in DOMAIN files0 : LargeAtCall(f)})

\* C10's case: the call has returned on an undisturbed tree that holds a file of
\* exactly the threshold size, left out, and a file one byte larger two levels
\* down, listed.
C10_Witness ==
    /\ Returned("find_large_files") /\ extDeleted = {}
    /\ \E f \in DOMAIN files0 :
        /\ files0[f].size = args.size_mb * BytesPerMb
        /\ \A i \in 1..Len(large_files) : large_files[i].path # f
    /\ \E g \in DOMAIN files0 :
        /\ files0[g].size = args.size_mb * BytesPerMb + 1
        /\ Len(g) = 2
        /\ \E i \in 1..Len(large_files) : large_files[i].path = g

\* ------------------------------------------------ change_permissions
\* C5 (as claimed): a recursive change_permissions on a directory with N entries
\* below it attempts the mode change on each of them once, whatever the mode: when
\* it returns, changed + errors = N.
C5_EveryDescendantAttempted ==
    (Returned("change_permissions") /\ args.recursive /\ Root \in dirs0) =>
        /\ results.changed + results.errors = Cardinality(Entries \ {Root})
        /\ \A e \in Entries \ {Root} :
            Cardinality({i \in 1..Len(visited) : visited[i] = e}) = 1

\* --------------------------------------------- organize_by_extension
\* The files directly inside source_dir at the call.
TopFiles0 == {f \in DOMAIN files0 : Len(f) = 1}

WasVisited(p) == \E i \in 1..Len(visited) : visited[i] = p

\* C3 (as claimed): organize_by_extension never aborts on one entry's failure: a
\* file whose bucket cannot be made or that cannot be moved is counted once in
\* 'errors', and every other file directly inside source_dir has been handled and
\* moved when the call returns.
C3_FailureIsPerEntry ==
    (Returned("organize_by_extension") /\ Root \in dirs0) =>
        /\ \A f \in TopFiles0 : WasVisited(f)
        /\ results.organized + results.errors = Cardinality(TopFiles0)
        /\ Cardinality(TopFiles0 \cap DOMAIN files) = results.errors

\* where shutil.move is asked to put f
Dst(f) == ExtDir(Name(f)) \o <<Name(f)>>

\* the files that were handled with an entry of their name already in their bucket
Collided == {f \in TopFiles0 : WasVisited(f) /\ Dst(f) \in dirs0 \cup DOMAIN files0}

\* C9 (as claimed): organize_by_extension treats a name collision as a failure of
\* that entry: when the bucket already holds an entry of the file's name, the move
\* is counted in 'errors' and not in 'organized', the file stays where it was and
\* the entry in the bucket is as it was: no file is overwritten or lost.
C9_CollisionIsAnError ==
    (op = "organize_by_extension" /\ Root \in dirs0) =>
        /\ \A f \in Collided :
            /\ f \in DOMAIN files /\ files[f] = files0[f]
            /\ Dst(f) \in dirs0 => Dst(f) \in dirs /\ Children(Dst(f)) = Children0(Dst(f))
            /\ Dst(f) \in DOMAIN files0 =>
                    Dst(f) \in DOMAIN files /\ files[Dst(f)] = files0[Dst(f)]
        /\ results.errors >= Cardinality(Collided)
        /\ \A q \in DOMAIN files0 : \E r \in DOMAIN files : files[r].origin = q

\* ------------------------------------- the operations on a bare target
\* Four of the operations return from an empty directory what they start with
\* (a recursive change_permissions; cleanup_empty_dirs, not recursive).
EmptyTargetIsQuiet ==
    (pc = "done" /\ dirs0 = {Root}
        /\ op \in {"organize_by_extension", "cleanup_old_files", "find_large_files",
                   "change_permissions", "cleanup_empty_dirs"}
        /\ (op \in {"change_permissions", "cleanup_empty_dirs"} =>
                (args.recursive <=> op = "change_permissions")))
        => ReturnValue = QuietReturn(op)

\* C2 (as claimed): each of the five operations, called on a target that does not
\* exist, returns an outcome the caller can tell from a run over an empty tree (a
\* NotFound-class error), having handled no entry and changed nothing.
C2_MissingTargetIsTold ==
    (pc = "done" /\ Root \notin dirs0) =>
        /\ ReturnValue # QuietReturn(op)
        /\ visited = <<>>
        /\ dirs = dirs0 /\ files = files0

====
